---- MODULE Spec2Model ----
(***************************************************************************)
(* Model of the x86 instruction lifter, mcsema/Arch/X86/Instr.cpp, and of   *)
(* the register masks of remill/BC/Mask.h.                                 *)
(*                                                                         *)
(* One Instr object is modelled: its decoded instruction (xedd, read       *)
(* only), its members B, args and append_instrs, and the routine F whose   *)
(* blocks it emits IR into.  The emitted IR is kept symbolically: every    *)
(* llvm::Value is a tuple whose first element is its opcode, and a block   *)
(* is the sequence of the instructions the IRBuilder inserted into it, in  *)
(* insertion order.                                                        *)
(*                                                                         *)
(* Integer widths.  TLC's integers are 32 bits wide, so the 64-bit machine *)
(* word is scaled down to WordBits bits and an N-bit LLVM integer type to  *)
(* N * WordBits / 64 bits.  All wrap-arounds of the code are kept.         *)
(***************************************************************************)
EXTENDS Integers, Sequences, FiniteSets, TLC

VARIABLES
  xedd,           \* the decoded instruction, with address and size
  module,         \* what the module M holds under the semantics name, and the OS flag
  B,              \* member B: position in blocks of the block being lifted into
  blocks,         \* the basic blocks of the routine F
  args,           \* member args
  append_instrs,  \* member append_instrs
  ret,            \* what the last LiftIntoBlock returned
  nlifts,         \* number of LiftIntoBlock calls made
  entry_args,     \* args as the last LiftIntoBlock call found it
  mask,           \* Mask.h: the mask that the index functions search
  call,           \* Mask.h: the last call made, with its arguments at entry
  offset,         \* Mask.h: the caller's variable bound to uint64_t &offset
  result,         \* Mask.h: what the last call of an index function returned
  container,      \* Mask.h: the Container that TypeMask is instantiated with
  regs,           \* Mask.h: the register list a TypeMask is built over
  type_mask       \* Mask.h: the fields of the TypeMask object

instrVars ==
  <<xedd, module, B, blocks, args, append_instrs, ret, nlifts, entry_args>>

maskVars == <<mask, call, offset, result, container, regs, type_mask>>

vars == <<instrVars, maskVars>>

\* No call of Mask.h has been made.
NoCall == [fn |-> "none", val |-> FALSE, n |-> 0, offset |-> 0]

\* No TypeMask object exists.
NoTypeMask ==
  [ret_type_mask |-> <<>>, param_type_mask |-> <<>>,
   rets |-> <<>>, params |-> <<>>]

\* The lifter runs without any mask.
NoMask ==
  /\ mask = <<>> /\ call = NoCall /\ offset = 0 /\ result = "none"
  /\ container = "vector" /\ regs = <<>> /\ type_mask = NoTypeMask

(***************************************************************************)
(* Bounds.                                                                 *)
(***************************************************************************)
\* Number of bits that stand for the 64 bits of uintptr_t / uint64_t.
WordBits == 28

\* Number of LiftIntoBlock calls made on the one Instr object.
MaxLifts == 2

\* Longest operand list of the operand-marshalling instructions.
MaxOperands == 2

(***************************************************************************)
(* Integer arithmetic of fixed width.                                      *)
(***************************************************************************)
\* Width in model bits of the LLVM type llvm::Type::getIntNTy(C, n).
Bits(n) == (n * WordBits) \div 64

Pow2(b) == 2 ^ b

WordMod == Pow2(WordBits)

\* static_cast<intptr_t>(v) / static_cast<int64_t>(v) of a b-bit pattern.
ToSigned(v, b) == IF v >= Pow2(b - 1) THEN v - Pow2(b) ELSE v

\* static_cast<uint64_t>(v) / static_cast<uintptr_t>(v).
ToUnsigned(v) == v % WordMod

(***************************************************************************)
(* The instruction classes of XED that the lifter names, and some that it  *)
(* does not, in the order of xed_iclass_enum_t (alphabetical).  The        *)
(* classifier compares class tags with <= and >=, so the order matters.    *)
(***************************************************************************)
XedIclassOrder ==
  << "ADD", "CALL_FAR", "CALL_NEAR", "HLT", "INT", "INT1", "INT3", "INTO",
     "INVD", "IRET", "IRETD", "IRETQ", "JB", "JBE", "JL", "JLE", "JMP",
     "JMP_FAR", "JNB", "JNZ", "JRCXZ", "JZ", "LEA", "LOOP", "LOOPE",
     "LOOPNE", "MOV", "NOP", "POP", "PUSH", "RET_FAR", "RET_NEAR",
     "SYSCALL", "SYSCALL_AMD", "SYSENTER", "SYSEXIT", "SYSRET",
     "SYSRET_AMD", "XABORT", "XADD", "XBEGIN", "XEND" >>

Iclasses == { XedIclassOrder[i] : i \in 1..Len(XedIclassOrder) }

\* The numeric value of a class tag.
XED_ICLASS(name) == CHOOSE i \in 1..Len(XedIclassOrder) : XedIclassOrder[i] = name

\* lo <= iclass && hi >= iclass
InRange(lo, ic, hi) ==
  XED_ICLASS(lo) <= XED_ICLASS(ic) /\ XED_ICLASS(hi) >= XED_ICLASS(ic)

\* xed_operand_name(xed_inst_operand(xedi, 0))
FirstOperandName(x) ==
  IF Len(x.operands) > 0 THEN x.operands[1].name ELSE "INVALID"

(***************************************************************************)
(* The classifier predicates.                                              *)
(***************************************************************************)
IsFunctionCall(x) == x.iclass = "CALL_NEAR" \/ x.iclass = "CALL_FAR"

IsFunctionReturn(x) == x.iclass = "RET_NEAR" \/ x.iclass = "RET_FAR"

IsSystemCall(x) ==
  x.iclass = "SYSCALL" \/ x.iclass = "SYSCALL_AMD" \/ x.iclass = "SYSENTER"

IsSystemReturn(x) ==
  x.iclass = "SYSRET" \/ x.iclass = "SYSRET_AMD" \/ x.iclass = "SYSEXIT"

IsInterruptCall(x) == InRange("INT", x.iclass, "INTO")

IsInterruptReturn(x) == InRange("IRET", x.iclass, "IRETQ")

IsBranch(x) ==
  \/ InRange("JB", x.iclass, "JLE")
  \/ InRange("JNB", x.iclass, "JZ")
  \/ InRange("LOOP", x.iclass, "LOOPNE")
  \/ x.iclass = "XBEGIN"

IsJump(x) ==
  \/ x.iclass = "JMP" \/ x.iclass = "JMP_FAR"
  \/ x.iclass = "XEND" \/ x.iclass = "XABORT"

IsDirectFunctionCall(x) ==
  x.iclass = "CALL_NEAR" /\ FirstOperandName(x) = "RELBR"

IsIndirectFunctionCall(x) ==
  \/ (x.iclass = "CALL_NEAR" /\ FirstOperandName(x) # "RELBR")
  \/ x.iclass = "CALL_FAR"

IsDirectJump(x) == x.iclass = "JMP" /\ FirstOperandName(x) = "RELBR"

IsIndirectJump(x) ==
  \/ (x.iclass = "JMP" /\ FirstOperandName(x) # "RELBR")
  \/ x.iclass = "JMP_FAR"
  \/ x.iclass = "XEND" \/ x.iclass = "XABORT"

IsError(x) == x.iclass = "HLT"

(***************************************************************************)
(* Program counters.                                                       *)
(***************************************************************************)
\* instr->address() + instr->size(), in uintptr_t.
NextPC(x) == (x.address + x.size) % WordMod

\* The CHECK of TargetPC: it is fatal to ask for the target of anything
\* but a direct jump, a direct call or a branch.
TargetPCDefined(x) == IsDirectJump(x) \/ IsDirectFunctionCall(x) \/ IsBranch(x)

TargetPC_ZeroExtended(x) ==
  ToUnsigned(ToSigned(NextPC(x), WordBits)
             + (x.branch_displacement % Pow2(Bits(32))))

\* static_cast<uintptr_t>(static_cast<intptr_t>(NextPC()) + disp)
TargetPC(x) ==
  ToUnsigned(ToSigned(NextPC(x), WordBits) + x.branch_displacement)

(***************************************************************************)
(* Symbolic IR.  A value is a tuple <<opcode, ...>>.  The lifting context  *)
(* ctx of one call is [insts, args, aborted]: the instructions inserted    *)
(* into block B so far, the member args, and whether a LOG(FATAL) or a     *)
(* failed CHECK has ended the process.                                     *)
(***************************************************************************)
\* llvm::ConstantInt::get(IntNTy(n), v, is_signed): v cut to the n bits.
ConstantInt(n, v) == <<"const", n, v % Pow2(Bits(n))>>

IsConstant(v) == v[1] = "const"

\* FindVarInFunction(F, name)
FindVarInFunction(name) == <<"var", name>>

\* FindStatePointer(F)
FindStatePointer == <<"state_ptr">>

\* &*F->arg_begin()
StateArgument == <<"arg_begin">>

\* lifter.GetLiftedBlockForPC(pc)
GetLiftedBlockForPC(pc) == <<"lifted_block", pc>>

\* A member of the Lifter: error, jump, function_call, ..., compute_address.
Helper(name) == <<"helper", name>>

\* The basic block at position i of the routine.
BlockRef(i) == <<"block", i>>

Emit(ctx, inst) == [ctx EXCEPT !.insts = Append(@, inst)]

Push(ctx, v) == [ctx EXCEPT !.args = Append(@, v)]

Abort(ctx) == [ctx EXCEPT !.aborted = TRUE]

\* IRBuilder::Insert: a folded constant is no instruction.
Insert(ctx, v) == [ctx |-> IF IsConstant(v) THEN ctx ELSE Emit(ctx, v), v |-> v]

CreateLoad(ctx, ptr) == Insert(ctx, <<"load", ptr>>)

CreateStore(ctx, val, ptr) == Insert(ctx, <<"store", val, ptr>>)

CreateAlloca(ctx, of) == Insert(ctx, <<"alloca", of>>)

CreateCall(ctx, callee, actuals) == Insert(ctx, <<"call", callee, actuals>>)

CreateICmpEQ(ctx, l, r) == Insert(ctx, <<"icmp_eq", l, r>>)

CreateCondBr(ctx, cond, t, f) == Insert(ctx, <<"condbr", cond, t, f>>)

CreateZExt(ctx, v, n) ==
  Insert(ctx, IF IsConstant(v) THEN ConstantInt(n, v[3]) ELSE <<"zext", v, n>>)

CreateSExt(ctx, v, n) ==
  Insert(ctx, IF IsConstant(v)
              THEN ConstantInt(n, ToSigned(v[3], Bits(v[2])))
              ELSE <<"sext", v, n>>)

CreateAdd(ctx, l, r) ==
  Insert(ctx, IF IsConstant(l) /\ IsConstant(r)
              THEN ConstantInt(l[2], l[3] + r[3])
              ELSE <<"add", l, r>>)

CreateMul(ctx, l, r) ==
  Insert(ctx, IF IsConstant(l) /\ IsConstant(r)
              THEN ConstantInt(l[2], l[3] * r[3])
              ELSE <<"mul", l, r>>)

\* AddTerminatingTailCall(block, target): ends the block with a tail call
\* of target, which gets the machine state as its only argument.
AddTerminatingTailCall(insts, target) ==
  Append(insts, <<"tail_call", target, <<StateArgument>>>>)

(***************************************************************************)
(* Registers.                                                              *)
(***************************************************************************)
\* xed_get_register_width_bits64(reg)
RegisterWidth(reg) ==
  CASE reg \in {"RIP", "RSP", "RAX", "RBX", "RSI"} -> 64
    [] reg \in {"EIP", "ESP", "EAX", "EBX", "ESI"} -> 32
    [] reg \in {"SP", "AX"} -> 16
    [] reg \in {"MMX0"} -> 64
    [] reg \in {"XMM0"} -> 128
    [] reg \in {"YMM0"} -> 256
    [] reg \in {"ZMM0"} -> 512
    [] OTHER -> 0

\* xed_get_largest_enclosing_register(reg)
LargestEnclosingRegister(reg) ==
  CASE reg \in {"RIP", "EIP"} -> "RIP"
    [] reg \in {"RSP", "ESP", "SP"} -> "RSP"
    [] reg \in {"RAX", "EAX", "AX"} -> "RAX"
    [] reg \in {"RBX", "EBX"} -> "RBX"
    [] reg \in {"RSI", "ESI"} -> "RSI"
    [] reg \in {"XMM0", "YMM0", "ZMM0"} -> "ZMM0"
    [] OTHER -> reg

IsVectorReg(reg) == reg \in {"MMX0", "XMM0", "YMM0", "ZMM0"}

(***************************************************************************)
(* Names.                                                                  *)
(***************************************************************************)
\* The synthesized name of the semantics function.  The iform of the
\* instruction is stood for by its class.
InstructionFunctionName(x, m) ==
  (IF m.os = "mac" THEN "_" ELSE "") \o x.iclass \o "_"
     \o ToString(x.operand_width)

PCRegName(x) ==
  CASE x.effective_address_width = 64 -> "RIP"
    [] x.effective_address_width = 32 -> "EIP"
    [] x.effective_address_width = 16 -> "IP"
    [] OTHER -> ""

AddressSpace_NoAgen(seg, name) ==
  IF seg = "GS" THEN 256
  ELSE IF seg = "FS" THEN 257
  ELSE 0

AddressSpace(seg, name) ==
  IF name = "AGEN" THEN 0
  ELSE IF seg = "GS" THEN 256
  ELSE IF seg = "FS" THEN 257
  ELSE 0

(***************************************************************************)
(* Operand marshalling.  x is the decoded instruction, xedo one of its     *)
(* operands: [name, visibility, read, written, reg].  An operator that     *)
(* creates a value yields [ctx, v]; Bind hands both to what follows it in  *)
(* the source, Then hands on a context.                                    *)
(***************************************************************************)
Value(ctx, v) == [ctx |-> ctx, v |-> v]

Bind(r, K(_, _)) == K(r.ctx, r.v)

Then(ctx, K(_)) == K(ctx)

\* The lambda RegToValue of LiftMemory.
RegToValue(ctx, reg, addr_width) ==
  IF reg = "INVALID"
  THEN Value(ctx, ConstantInt(addr_width, 0))
  ELSE Bind(CreateLoad(ctx, FindVarInFunction(reg \o "_read")),
         LAMBDA c1, RegAddr :
       Bind(CreateLoad(c1, RegAddr),
         LAMBDA c2, V :
       IF RegisterWidth(reg) < addr_width
       THEN CreateZExt(c2, V, addr_width)
       ELSE Value(c2, V)))

PopAdjustedBase_AnyClass(ctx, x, Bv) ==
  IF LargestEnclosingRegister(x.base_reg) = "RSP"
  THEN CreateAdd(ctx, Bv, ConstantInt(x.machine_mode_bits,
                                      x.machine_mode_bits \div 8))
  ELSE Value(ctx, Bv)

\* The base value of B + (I * S) + D: POP [xSP + ...] uses xSP after the
\* increment.
PopAdjustedBase(ctx, x, Bv) ==
  IF x.iclass = "POP" /\ LargestEnclosingRegister(x.base_reg) = "RSP"
  THEN CreateAdd(ctx, Bv, ConstantInt(x.machine_mode_bits,
                                      x.machine_mode_bits \div 8))
  ELSE Value(ctx, Bv)

\* D of B + (I * S) + D: the displacement as a 32-bit constant, sign
\* extended when the address is wider.
Displacement(ctx, x) ==
  IF 32 < x.machine_mode_bits
  THEN CreateSExt(ctx, ConstantInt(32, ToUnsigned(x.memory_displacement)),
                  x.machine_mode_bits)
  ELSE Value(ctx, ConstantInt(32, ToUnsigned(x.memory_displacement)))

\* The address of an operand without base and index: its displacement.
AbsoluteAddress_Int32(x) == ConstantInt(32, ToUnsigned(x.memory_displacement))

AbsoluteAddress(x) ==
  ConstantInt(x.machine_mode_bits, ToUnsigned(x.memory_displacement))

\* The address of an operand whose base is RIP: next_pc + disp.
PCRelativeAddress(x) ==
  ConstantInt(x.machine_mode_bits,
              ToUnsigned(ToSigned(NextPC(x), WordBits) + x.memory_displacement))

\* The address A of a memory operand, before the segment is applied.
ComputeAddress(ctx, x) ==
  IF x.base_reg = "INVALID" /\ x.index_reg = "INVALID"
  THEN Value(ctx, AbsoluteAddress(x))
  ELSE IF x.base_reg = "RIP"
  THEN Value(ctx, PCRelativeAddress(x))
  ELSE Bind(RegToValue(ctx, x.base_reg, x.machine_mode_bits),
         LAMBDA c1, Bv :
       Bind(RegToValue(c1, x.index_reg, x.machine_mode_bits),
         LAMBDA c2, Iv :
       Bind(PopAdjustedBase(c2, x, Bv),
         LAMBDA c3, Bp :
       Bind(Displacement(c3, x),
         LAMBDA c4, D :
       Bind(CreateMul(c4, Iv, ConstantInt(x.machine_mode_bits, x.scale)),
         LAMBDA c5, IS :
       Bind(CreateAdd(c5, Bp, IS),
         LAMBDA c6, BIS :
       CreateAdd(c6, BIS, D)))))))

\* The segment part of LiftMemory: an address of another address space
\* goes through lifter.compute_address.
SegmentedAddress(ctx, A, addr_space) ==
  IF addr_space # 0
  THEN CreateCall(ctx, Helper("compute_address"),
                  <<FindStatePointer, A, ConstantInt(32, addr_space)>>)
  ELSE Value(ctx, A)

\* if (cond) args.push_back(v)
PushIf(cond, ctx, v) == IF cond THEN Push(ctx, v) ELSE ctx

LiftMemory(ctx, x, xedo) ==
  Bind(ComputeAddress(ctx, x),
    LAMBDA c1, A0 :
  Bind(SegmentedAddress(c1, A0, AddressSpace(x.seg_reg, xedo.name)),
    LAMBDA c2, A :
  PushIf(xedo.read, PushIf(xedo.written, c2, A), A)))

LiftImmediate(ctx, x, op_name) ==
  IF ~(x.immediate_width_bits <= x.operand_width) THEN Abort(ctx)
  ELSE IF op_name = "IMM0SIGNED" \/ x.immediate_is_signed
  THEN Push(ctx, ConstantInt(x.operand_width,
                   ToUnsigned(ToSigned(x.immediate,
                                       Bits(x.immediate_width_bits)))))
  ELSE IF op_name = "IMM0"
  THEN Push(ctx, ConstantInt(x.operand_width, ToUnsigned(x.immediate)))
  ELSE IF op_name = "IMM1_BYTES" \/ op_name = "IMM1"
  THEN Push(ctx, ConstantInt(x.operand_width,
                             ToUnsigned(x.second_immediate)))
  ELSE Abort(ctx)

\* The read part of LiftRegister: a vector register is passed by the
\* address of a copy, any other register by value.
LiftRegisterRead(ctx, reg) ==
  Bind(CreateLoad(ctx, FindVarInFunction(reg \o "_read")),
    LAMBDA c1, RegAddr :
  Bind(CreateLoad(c1, RegAddr),
    LAMBDA c2, Reg :
  IF IsVectorReg(reg)
  THEN Bind(CreateAlloca(c2, Reg),
         LAMBDA c3, ValAddr :
       Push(CreateStore(c3, Reg, ValAddr).ctx, ValAddr))
  ELSE Push(c2, Reg)))

\* The write part of LiftRegister: the register is passed by reference.
LiftRegisterWrite(ctx, reg) ==
  Bind(CreateLoad(ctx, FindVarInFunction(reg \o "_write")),
    LAMBDA c1, RegAddr : Push(c1, RegAddr))

LiftRegister(ctx, xedo) ==
  Then(IF xedo.written THEN LiftRegisterWrite(ctx, xedo.reg) ELSE ctx,
    LAMBDA w :
  IF xedo.read THEN LiftRegisterRead(w, xedo.reg) ELSE w)

LiftBranchDisplacement(ctx, x) ==
  IF ~TargetPCDefined(x) THEN Abort(ctx)
  ELSE Push(ctx, ConstantInt(x.machine_mode_bits, TargetPC(x)))

\* The switch of LiftOperand on the name of a visible operand.
LiftVisibleOperand(ctx, x, xedo) ==
  IF xedo.name \in {"AGEN", "MEM0"} THEN LiftMemory(ctx, x, xedo)
  ELSE IF xedo.name \in {"IMM0SIGNED", "IMM0", "IMM1_BYTES", "IMM1"}
  THEN LiftImmediate(ctx, x, xedo.name)
  ELSE IF xedo.name = "PTR" THEN Abort(ctx)
  ELSE IF xedo.name \in {"REG0", "REG1", "REG2", "REG3"}
  THEN LiftRegister(ctx, xedo)
  ELSE IF xedo.name = "RELBR" THEN LiftBranchDisplacement(ctx, x)
  ELSE Abort(ctx)

LiftOperand(ctx, x, op_num) ==
  IF x.operands[op_num].visibility = "SUPPRESSED" THEN ctx
  ELSE LiftVisibleOperand(ctx, x, x.operands[op_num])

\* The loop of LiftGeneric over the operands i .. num_operands.
RECURSIVE LiftOperands(_, _, _)
LiftOperands(ctx, x, i) ==
  IF i > Len(x.operands) \/ ctx.aborted THEN ctx
  ELSE LiftOperands(LiftOperand(ctx, x, i), x, i + 1)

\* CallSemantics with a missing semantics function made fatal.
CallSemantics_MissingIsFatal(ctx, x, m) ==
  IF m.semantics = "function"
  THEN CreateCall(ctx, <<"function", InstructionFunctionName(x, m)>>,
                  ctx.args).ctx
  ELSE IF m.semantics = "constexpr_pointer"
  THEN CreateCall(ctx, <<"initializer", InstructionFunctionName(x, m)>>,
                  ctx.args).ctx
  ELSE Abort(ctx)

\* The call of the semantics function, if the module has one.
CallSemantics(ctx, x, m) ==
  IF m.semantics = "function"
  THEN CreateCall(ctx, <<"function", InstructionFunctionName(x, m)>>,
                  ctx.args).ctx
  ELSE IF m.semantics = "constexpr_pointer"
  THEN CreateCall(ctx, <<"initializer", InstructionFunctionName(x, m)>>,
                  ctx.args).ctx
  ELSE IF m.semantics = "mutable_pointer"
  THEN Abort(ctx)
  ELSE ctx

RECURSIVE AppendAll(_, _, _)
AppendAll(ctx, list, i) ==
  IF i > Len(list) THEN ctx ELSE AppendAll(Emit(ctx, list[i]), list, i + 1)

LiftGeneric(ctx, x, m, appended) ==
  Then(LiftOperands(Push(ctx, StateArgument), x, 1),
    LAMBDA c1 :
  Then(IF c1.aborted THEN c1 ELSE CallSemantics(c1, x, m),
    LAMBDA c2 :
  IF c2.aborted THEN c2 ELSE AppendAll(c2, appended, 1)))

LiftPC(ctx, x) ==
  Bind(CreateLoad(ctx, FindVarInFunction(PCRegName(x) \o "_write")),
    LAMBDA c1, Slot :
  CreateStore(c1, ConstantInt(x.machine_mode_bits, NextPC(x)), Slot).ctx)

(***************************************************************************)
(* Control-flow threading.  Every path of LiftIntoBlock yields             *)
(* [ctx, ret, created]: the context at its end, the value it returns, and  *)
(* the blocks it has added to the routine.  first is the position in the   *)
(* routine that the first added block gets.                                *)
(***************************************************************************)
Returned(ctx, r, created) == [ctx |-> ctx, ret |-> r, created |-> created]

\* AddTerminatingTailCall(B, target), unless the process has died before.
Terminate(ctx, target) ==
  IF ctx.aborted THEN ctx
  ELSE [ctx EXCEPT !.insts = AddTerminatingTailCall(@, target)]

NewBlock(name, insts) == [name |-> name, insts |-> insts]

LiftConditionalBranch_Swapped(ctx, x, first) ==
  IF ctx.aborted THEN Returned(ctx, FALSE, <<>>)
  ELSE Bind(CreateLoad(ctx, FindVarInFunction(PCRegName(x) \o "_read")),
         LAMBDA c1, Slot :
       Bind(CreateLoad(c1, Slot),
         LAMBDA c2, DestPC :
       Bind(CreateICmpEQ(c2, ConstantInt(x.machine_mode_bits, TargetPC(x)),
                         DestPC),
         LAMBDA c3, Cmp :
       Returned(CreateCondBr(c3, Cmp, BlockRef(first + 1),
                             BlockRef(first)).ctx,
                FALSE,
                << NewBlock("branch_taken",
                     AddTerminatingTailCall(<<>>,
                       GetLiftedBlockForPC(TargetPC(x)))),
                   NewBlock("fall_through",
                     AddTerminatingTailCall(<<>>,
                       GetLiftedBlockForPC(NextPC(x)))) >>))))

LiftConditionalBranch(ctx, x, first) ==
  IF ctx.aborted THEN Returned(ctx, FALSE, <<>>)
  ELSE Bind(CreateLoad(ctx, FindVarInFunction(PCRegName(x) \o "_read")),
         LAMBDA c1, Slot :
       Bind(CreateLoad(c1, Slot),
         LAMBDA c2, DestPC :
       Bind(CreateICmpEQ(c2, ConstantInt(x.machine_mode_bits, TargetPC(x)),
                         DestPC),
         LAMBDA c3, Cmp :
       Returned(CreateCondBr(c3, Cmp, BlockRef(first),
                             BlockRef(first + 1)).ctx,
                FALSE,
                << NewBlock("branch_taken",
                     AddTerminatingTailCall(<<>>,
                       GetLiftedBlockForPC(TargetPC(x)))),
                   NewBlock("fall_through",
                     AddTerminatingTailCall(<<>>,
                       GetLiftedBlockForPC(NextPC(x)))) >>))))

ErrorPath(ctx) == Returned(Terminate(ctx, Helper("error")), FALSE, <<>>)

DirectJumpPath_ToNextPC(ctx, x) ==
  Returned(Terminate(ctx, GetLiftedBlockForPC(NextPC(x))), FALSE, <<>>)

DirectJumpPath(ctx, x) ==
  Returned(Terminate(ctx, GetLiftedBlockForPC(TargetPC(x))), FALSE, <<>>)

IndirectJumpPath(ctx, x, m, appended) ==
  Returned(Terminate(LiftGeneric(LiftPC(ctx, x), x, m, appended),
                     Helper("jump")), FALSE, <<>>)

DirectFunctionCallPath(ctx, x, m, appended) ==
  Returned(Terminate(LiftGeneric(LiftPC(ctx, x), x, m, appended),
                     GetLiftedBlockForPC(TargetPC(x))), FALSE, <<>>)

IndirectFunctionCallPath(ctx, x, m, appended) ==
  Returned(Terminate(LiftGeneric(LiftPC(ctx, x), x, m, appended),
                     Helper("function_call")), FALSE, <<>>)

FunctionReturnPath(ctx, x, m, appended) ==
  Returned(Terminate(LiftGeneric(LiftPC(ctx, x), x, m, appended),
                     Helper("function_return")), FALSE, <<>>)

BranchPath(ctx, x, m, appended, first) ==
  LiftConditionalBranch(LiftGeneric(LiftPC(ctx, x), x, m, appended), x, first)

SystemCallPath_GenericFirst(ctx, x, m, appended) ==
  Returned(Terminate(LiftPC(LiftGeneric(ctx, x, m, appended), x),
                     Helper("system_call")), FALSE, <<>>)

SystemCallPath(ctx, x, m, appended) ==
  Returned(Terminate(LiftGeneric(LiftPC(ctx, x), x, m, appended),
                     Helper("system_call")), FALSE, <<>>)

SystemReturnPath_CopyPaste(ctx, x, m, appended) ==
  Returned(Terminate(LiftGeneric(LiftPC(ctx, x), x, m, appended),
                     Helper("system_call")), FALSE, <<>>)

SystemReturnPath(ctx, x, m, appended) ==
  Returned(Terminate(LiftGeneric(LiftPC(ctx, x), x, m, appended),
                     Helper("system_return")), FALSE, <<>>)

InterruptCallPath(ctx, x, m, appended) ==
  Returned(Terminate(LiftGeneric(LiftPC(ctx, x), x, m, appended),
                     Helper("interrupt_call")), FALSE, <<>>)

InterruptReturnPath_FallsThrough(ctx, x, m, appended) ==
  Returned(Terminate(LiftGeneric(LiftPC(ctx, x), x, m, appended),
                     Helper("interrupt_return")), TRUE, <<>>)

InterruptReturnPath(ctx, x, m, appended) ==
  Returned(Terminate(LiftGeneric(LiftPC(ctx, x), x, m, appended),
                     Helper("interrupt_return")), FALSE, <<>>)

FallThroughPath(ctx, x, m, appended) ==
  Returned(LiftGeneric(ctx, x, m, appended), TRUE, <<>>)

\* The body of LiftIntoBlock.
LiftInstr(ctx, x, m, appended, first) ==
  IF IsError(x) THEN ErrorPath(ctx)
  ELSE IF IsDirectJump(x) THEN DirectJumpPath(ctx, x)
  ELSE IF IsIndirectJump(x) THEN IndirectJumpPath(ctx, x, m, appended)
  ELSE IF IsDirectFunctionCall(x)
  THEN DirectFunctionCallPath(ctx, x, m, appended)
  ELSE IF IsIndirectFunctionCall(x)
  THEN IndirectFunctionCallPath(ctx, x, m, appended)
  ELSE IF IsFunctionReturn(x) THEN FunctionReturnPath(ctx, x, m, appended)
  ELSE IF IsBranch(x) THEN BranchPath(ctx, x, m, appended, first)
  ELSE IF IsSystemCall(x) THEN SystemCallPath(ctx, x, m, appended)
  ELSE IF IsSystemReturn(x) THEN SystemReturnPath(ctx, x, m, appended)
  ELSE IF IsInterruptCall(x) THEN InterruptCallPath(ctx, x, m, appended)
  ELSE IF IsInterruptReturn(x) THEN InterruptReturnPath(ctx, x, m, appended)
  ELSE FallThroughPath(ctx, x, m, appended)

(***************************************************************************)
(* The action: the caller adds an empty block to the routine and calls     *)
(* LiftIntoBlock on it.  A call that dies in a fatal check leaves          *)
(* ret = "aborted", and nothing runs after it.                             *)
(***************************************************************************)
LiftIntoBlock ==
  /\ nlifts < MaxLifts
  /\ ret # "aborted"
  /\ \E r \in { LiftInstr([insts |-> <<>>, args |-> args, aborted |-> FALSE],
                          xedd, module, append_instrs, Len(blocks) + 2) } :
        /\ B' = Len(blocks) + 1
        /\ blocks' = Append(blocks, NewBlock("", r.ctx.insts)) \o r.created
        /\ args' = r.ctx.args
        /\ entry_args' = args
        /\ ret' = IF r.ctx.aborted THEN "aborted"
                  ELSE IF r.ret THEN "true" ELSE "false"
        /\ nlifts' = nlifts + 1
  /\ UNCHANGED <<xedd, module, append_instrs>>
  /\ UNCHANGED maskVars

Next == LiftIntoBlock

(***************************************************************************)
(* Decoded instructions.  The state after construction holds one of them;  *)
(* three families are explored, each varying the fields one part of the    *)
(* lifter reads.                                                           *)
(***************************************************************************)
Operand(name, visibility, read, written, reg) ==
  [name |-> name, visibility |-> visibility, read |-> read,
   written |-> written, reg |-> reg]

\* A NOP of two bytes at 0x1000 in 64-bit mode; the families vary it.
BaseInstruction ==
  [iclass |-> "NOP", address |-> 4096, size |-> 2,
   branch_displacement |-> 0,
   machine_mode_bits |-> 64, effective_address_width |-> 64,
   operand_width |-> 32, operands |-> <<>>,
   seg_reg |-> "INVALID", base_reg |-> "RBX", index_reg |-> "INVALID",
   memory_displacement |-> 8, scale |-> 1,
   immediate_width_bits |-> 8, immediate_is_signed |-> FALSE,
   immediate |-> 1, second_immediate |-> 2]

\* Code addresses: low, mid and at the top of the address space.
Addresses == {0, 4096, WordMod - 3}

Sizes == {2, 5}

BranchDisplacements == {-5, 0, 3}

\* Machine mode and effective address width.
Modes == {<<64, 64>>, <<32, 32>>, <<16, 16>>}

\* The classes whose first operand the decoder names RELBR, always or
\* (JMP, CALL_NEAR) in their relative form.
ConditionalClasses ==
  {"JB", "JBE", "JL", "JLE", "JNB", "JNZ", "JRCXZ", "JZ",
   "LOOP", "LOOPE", "LOOPNE", "XBEGIN"}

RelativeClasses == ConditionalClasses \cup {"JMP", "CALL_NEAR"}

FarClasses == {"JMP_FAR", "CALL_FAR"}

RelBr == Operand("RELBR", "EXPLICIT", TRUE, FALSE, "INVALID")

Ptr == Operand("PTR", "EXPLICIT", TRUE, FALSE, "INVALID")

\* The operand lists of the control-flow family, by class.
ControlFlowOperands(ic) ==
  IF ic \in ConditionalClasses THEN {<<RelBr>>}
  ELSE IF ic \in FarClasses
  THEN {<<Ptr>>, <<Operand("MEM0", "EXPLICIT", TRUE, FALSE, "INVALID")>>}
  ELSE (IF ic \in RelativeClasses THEN {<<RelBr>>} ELSE {<<>>})
       \cup {<<Operand("REG0", "EXPLICIT", TRUE, FALSE, "RAX")>>,
             <<Operand("MEM0", "EXPLICIT", TRUE, FALSE, "INVALID")>>}

ControlFlowInstructions ==
  { [BaseInstruction EXCEPT
       !.iclass = ic, !.operands = ops, !.address = a, !.size = sz,
       !.branch_displacement = d,
       !.base_reg = "INVALID", !.index_reg = "INVALID",
       !.machine_mode_bits = md[1], !.effective_address_width = md[2]] :
    <<ic, ops>> \in UNION { {ic} \X ControlFlowOperands(ic) : ic \in Iclasses },
    a \in Addresses, sz \in Sizes, d \in BranchDisplacements, md \in Modes }

MemoryOperands ==
  { Operand("MEM0", "EXPLICIT", TRUE, FALSE, "INVALID"),
    Operand("MEM0", "EXPLICIT", FALSE, TRUE, "INVALID"),
    Operand("MEM0", "EXPLICIT", TRUE, TRUE, "INVALID"),
    Operand("AGEN", "EXPLICIT", TRUE, FALSE, "INVALID") }

SegmentRegisters == {"INVALID", "DS", "FS", "GS"}

BaseRegisters == {"INVALID", "RIP", "RSP", "ESP", "SP", "RBX"}

IndexRegisters == {"INVALID", "RSI"}

MemoryDisplacements == {-8, 0, 8192}

Scales == {1, 4}

\* Base and index are registers of the addressing mode: none wider than the
\* machine mode, and RIP-relative addresses exist in 64-bit mode only.
AddressableBy(base, index, md) ==
  /\ RegisterWidth(base) <= md[1]
  /\ RegisterWidth(index) <= md[1]
  /\ (base = "RIP" => md[1] = 64)

MemoryFields ==
  { f \in BaseRegisters \X IndexRegisters \X Modes :
      AddressableBy(f[1], f[2], f[3]) }

MemoryInstructions ==
  { [BaseInstruction EXCEPT
       !.iclass = ic, !.operands = <<op>>, !.seg_reg = seg,
       !.base_reg = f[1], !.index_reg = f[2],
       !.memory_displacement = d, !.scale = sc,
       !.machine_mode_bits = f[3][1],
       !.effective_address_width = f[3][2]] :
    ic \in {"MOV", "POP", "PUSH"}, op \in MemoryOperands,
    seg \in SegmentRegisters, f \in MemoryFields,
    d \in MemoryDisplacements, sc \in Scales }

OperandShapes ==
  { Operand("REG0", "EXPLICIT", FALSE, TRUE, "RAX"),
    Operand("REG0", "EXPLICIT", TRUE, FALSE, "RAX"),
    Operand("REG0", "EXPLICIT", TRUE, TRUE, "RAX"),
    Operand("REG0", "SUPPRESSED", TRUE, TRUE, "RSP"),
    Operand("REG1", "IMPLICIT", TRUE, FALSE, "XMM0"),
    Operand("REG1", "EXPLICIT", TRUE, TRUE, "XMM0"),
    Operand("MEM0", "EXPLICIT", TRUE, FALSE, "INVALID"),
    Operand("MEM0", "EXPLICIT", TRUE, TRUE, "INVALID"),
    Operand("AGEN", "EXPLICIT", TRUE, FALSE, "INVALID"),
    Operand("IMM0", "EXPLICIT", TRUE, FALSE, "INVALID"),
    Operand("IMM0SIGNED", "EXPLICIT", TRUE, FALSE, "INVALID"),
    Operand("IMM1", "EXPLICIT", TRUE, FALSE, "INVALID"),
    Operand("MEM1", "EXPLICIT", TRUE, FALSE, "INVALID") }

\* The sequences over S of length at most n.
RECURSIVE SeqsUpTo(_, _)
SeqsUpTo(S, n) ==
  IF n = 0 THEN {<<>>}
  ELSE LET shorter == SeqsUpTo(S, n - 1)
       IN shorter \cup { Append(q, e) : q \in shorter, e \in S }

OperandInstructions ==
  { [BaseInstruction EXCEPT
       !.iclass = ic, !.operands = ops, !.immediate_is_signed = sg] :
    ic \in {"ADD", "RET_NEAR"}, ops \in SeqsUpTo(OperandShapes, MaxOperands),
    sg \in BOOLEAN }

Module(os, semantics) == [os |-> os, semantics |-> semantics]

\* The state after Instr::Instr, for an instruction of the set insts and
\* a module of the set modules.
Constructed(insts, modules) ==
  /\ xedd \in insts
  /\ module \in modules
  /\ B = 0
  /\ blocks = <<>>
  /\ args = <<>>
  /\ append_instrs = <<>>
  /\ ret = "none"
  /\ nlifts = 0
  /\ entry_args = <<>>
  /\ NoMask

InitControlFlow ==
  Constructed(ControlFlowInstructions,
              {Module("linux", "function"), Module("linux", "none")})

InitMemory ==
  Constructed(MemoryInstructions, {Module("linux", "function")})

InitOperands ==
  Constructed(OperandInstructions,
              { Module(os, sem) :
                os \in {"linux", "mac"},
                sem \in {"function", "constexpr_pointer",
                         "mutable_pointer", "none"} })

\* Effective address widths: the three that PCRegName knows, and two that
\* it does not.
AddressWidths == {0, 8, 16, 32, 64}

\* The control-flow family at one address, with every effective address
\* width.
AddressWidthInstructions ==
  { [BaseInstruction EXCEPT
       !.iclass = ic, !.operands = ops, !.branch_displacement = 3,
       !.base_reg = "INVALID", !.index_reg = "INVALID",
       !.machine_mode_bits = mm, !.effective_address_width = w] :
    <<ic, ops>> \in UNION { {ic} \X ControlFlowOperands(ic) : ic \in Iclasses },
    mm \in {16, 32, 64}, w \in AddressWidths }

InitAddressWidth ==
  Constructed(AddressWidthInstructions, {Module("linux", "function")})

Init == InitControlFlow \/ InitMemory \/ InitOperands \/ InitAddressWidth

Spec == Init /\ [][Next]_vars

SpecControlFlow == InitControlFlow /\ [][Next]_vars

SpecMemory == InitMemory /\ [][Next]_vars

SpecOperands == InitOperands /\ [][Next]_vars

SpecAddressWidth == InitAddressWidth /\ [][Next]_vars

(***************************************************************************)
(* Mask.h.  A mask is a sequence of booleans; C++ index i is position      *)
(* i + 1 of the sequence.  The functions that take uint64_t &offset yield  *)
(* [ret, offset]: what they return and what they leave in offset.          *)
(***************************************************************************)
\* Longest mask that the index functions are called on.
MaxMaskLen == 3

\* The loop of NextIndex, at index i.
RECURSIVE NextIndexLoop(_, _, _, _)
NextIndexLoop(m, val, off, i) ==
  IF ~(i < Len(m)) THEN [ret |-> FALSE, offset |-> off]
  ELSE IF m[i + 1] = val THEN [ret |-> TRUE, offset |-> i]
  ELSE NextIndexLoop(m, val, off, i + 1)

NextIndex(m, val, off) == NextIndexLoop(m, val, off, off)

\* The loop of NthIndex(mask, val, n, offset), at index i.
RECURSIVE NthIndexLoop(_, _, _, _, _, _)
NthIndexLoop(m, val, n, off, i, counter) ==
  IF ~(i < Len(m)) THEN [ret |-> FALSE, offset |-> off]
  ELSE IF m[i + 1] = val /\ counter + 1 = n THEN [ret |-> TRUE, offset |-> i]
  ELSE NthIndexLoop(m, val, n, off, i + 1,
                    IF m[i + 1] = val THEN counter + 1 ELSE counter)

\* NthIndex(mask, val, n, offset)
NthIndex(m, val, n, off) ==
  IF n < 0 THEN [ret |-> FALSE, offset |-> off]
  ELSE NthIndexLoop(m, val, n, off, 0, -1)

\* NthIndex(mask, val, n): the index found, or 0.
NthIndexOrZero(m, val, n) == NthIndex(m, val, n, 0).offset

\* The arguments of the index functions.
Counts == -1..MaxMaskLen

Offsets == 0..(MaxMaskLen + 1)

Called(fn, val, n, off) == [fn |-> fn, val |-> val, n |-> n, offset |-> off]

CallNextIndex ==
  /\ \E val \in BOOLEAN, off \in Offsets :
       \E r \in {NextIndex(mask, val, off)} :
         /\ call' = Called("NextIndex", val, 0, off)
         /\ offset' = r.offset
         /\ result' = r.ret
  /\ UNCHANGED <<instrVars, mask, container, regs, type_mask>>

CallNthIndex ==
  /\ \E val \in BOOLEAN, n \in Counts, off \in Offsets :
       \E r \in {NthIndex(mask, val, n, off)} :
         /\ call' = Called("NthIndex", val, n, off)
         /\ offset' = r.offset
         /\ result' = r.ret
  /\ UNCHANGED <<instrVars, mask, container, regs, type_mask>>

\* The overload without offset returns the index and has no offset to leave.
CallNthIndexOrZero ==
  /\ \E val \in BOOLEAN, n \in Counts :
       /\ call' = Called("NthIndexOrZero", val, n, 0)
       /\ result' = NthIndexOrZero(mask, val, n)
  /\ UNCHANGED <<instrVars, mask, offset, container, regs, type_mask>>

NextIndexFunctions == CallNextIndex \/ CallNthIndex \/ CallNthIndexOrZero

\* No Instr object takes part.
NoInstr ==
  /\ xedd = BaseInstruction /\ module = Module("linux", "none")
  /\ B = 0 /\ blocks = <<>> /\ args = <<>> /\ append_instrs = <<>>
  /\ ret = "none" /\ nlifts = 0 /\ entry_args = <<>>

InitIndexFunctions ==
  /\ NoInstr
  /\ mask \in SeqsUpTo(BOOLEAN, MaxMaskLen)
  /\ call = NoCall /\ offset = 0 /\ result = "none"
  /\ container = "vector" /\ regs = <<>> /\ type_mask = NoTypeMask

SpecIndexFunctions == InitIndexFunctions /\ [][NextIndexFunctions]_vars

(***************************************************************************)
(* TypeMask<Container>.  container is std::vector<bool> ("vector") or      *)
(* std::bitset<N> ("bitset") with N the length of the register list.  A    *)
(* register list is a sequence of registers, a mask of either container a  *)
(* sequence of booleans.                                                   *)
(***************************************************************************)
\* Longest register list whose masks are all explored.
MaxRegs == 3

\* Bits of int, the type of 1 << used.
IntBits == 32

\* Bits of unsigned long long, the type that std::bitset is built from.
LongLongBits == 64

Containers == {"vector", "bitset"}

\* (1 << used) - 1 converted to unsigned long long.  Every value it takes
\* is 2^k - 1, and k, the number of its low bits that are set, is given.
\* For used = IntBits - 1 the subtraction wraps from INT_MIN to INT_MAX.
\* A shift by the width of int or more is undefined: the count is taken
\* modulo the width (x86), or the shift yields 0 (ARM) and 0 - 1 is
\* sign-extended to all ones.
LowBitsSet(used) ==
  IF used < IntBits THEN {used} ELSE {used % IntBits, LongLongBits}

\* GMask(used) for the mask of used bits, by the constructor that the tag
\* selects: the masks it can yield.
GMask(cont, used) ==
  IF cont = "bitset"
  THEN { [i \in 1..used |-> i <= k] : k \in LowBitsSet(used) }
  ELSE { [i \in 1..used |-> TRUE] }

\* The elements that the loop of TypeMask(regs, ret, param) pushes for one
\* mask, from index i on.
RECURSIVE PushMasked(_, _, _)
PushMasked(rs, m, i) ==
  IF i > Len(rs) THEN <<>>
  ELSE (IF m[i] THEN <<rs[i]>> ELSE <<>>) \o PushMasked(rs, m, i + 1)

\* TypeMask(regs)
TypeMaskOver(rs, rmask, pmask) ==
  [ret_type_mask |-> rmask, param_type_mask |-> pmask,
   rets |-> rs, params |-> rs]

\* TypeMask(regs, ret, param)
TypeMaskFrom(rs, rmask, pmask) ==
  [ret_type_mask |-> rmask, param_type_mask |-> pmask,
   rets |-> PushMasked(rs, rmask, 1), params |-> PushMasked(rs, pmask, 1)]

Empty(tm) == tm.rets = <<>> /\ tm.params = <<>>

\* TypeMask::reset
Reset(tm) ==
  [tm EXCEPT
     !.rets = <<>>, !.params = <<>>,
     !.ret_type_mask = [i \in DOMAIN @ |-> FALSE],
     !.param_type_mask =
        [i \in DOMAIN @ |->
           IF i <= Len(tm.ret_type_mask) THEN FALSE ELSE @[i]]]

Constructed1 == Called("TypeMask(regs)", FALSE, 0, 0)

Constructed2 == Called("TypeMask(regs, ret, param)", FALSE, 0, 0)

\* The masks handed to TypeMask(regs, ret, param) for n registers: every
\* mask for a short list, three patterns for a long one.
MasksOfLength(n) ==
  IF n <= MaxRegs THEN { m \in SeqsUpTo(BOOLEAN, MaxRegs) : Len(m) = n }
  ELSE { [i \in 1..n |-> TRUE], [i \in 1..n |-> FALSE],
         [i \in 1..n |-> i % 2 = 1] }

ConstructFromRegs ==
  /\ call.fn = "none"
  /\ \E rmask \in GMask(container, Len(regs)),
        pmask \in GMask(container, Len(regs)) :
       type_mask' = TypeMaskOver(regs, rmask, pmask)
  /\ call' = Constructed1
  /\ UNCHANGED <<instrVars, mask, offset, result, container, regs>>

ConstructFromMasks ==
  /\ call.fn = "none"
  /\ \E rmask \in MasksOfLength(Len(regs)), pmask \in MasksOfLength(Len(regs)) :
       type_mask' = TypeMaskFrom(regs, rmask, pmask)
  /\ call' = Constructed2
  /\ UNCHANGED <<instrVars, mask, offset, result, container, regs>>

CallEmpty ==
  /\ call.fn # "none"
  /\ call' = Called("Empty", FALSE, 0, 0)
  /\ result' = Empty(type_mask)
  /\ UNCHANGED <<instrVars, mask, offset, container, regs, type_mask>>

CallReset ==
  /\ call.fn # "none"
  /\ call' = Called("reset", FALSE, 0, 0)
  /\ type_mask' = Reset(type_mask)
  /\ UNCHANGED <<instrVars, mask, offset, result, container, regs>>

NextTypeMask ==
  ConstructFromRegs \/ ConstructFromMasks \/ CallEmpty \/ CallReset

\* Lengths of the register lists: the short ones, and those around the
\* width of int.
RegisterListLengths == (0..MaxRegs) \cup {IntBits - 1, IntBits, IntBits + 1}

InitTypeMask ==
  /\ NoInstr
  /\ mask = <<>> /\ call = NoCall /\ offset = 0 /\ result = "none"
  /\ container \in Containers
  /\ regs \in { [i \in 1..n |-> i] : n \in RegisterListLengths }
  /\ type_mask = NoTypeMask

SpecTypeMask == InitTypeMask /\ [][NextTypeMask]_vars

(***************************************************************************)
(* Vocabulary of the properties.                                           *)
(***************************************************************************)
\* The last LiftIntoBlock call has returned.
Lifted == ret \in {"true", "false"}

\* The instructions of the block the last call lifted into.
LiftedInsts == blocks[B].insts

IsTerminator(inst) == inst[1] \in {"tail_call", "condbr"}

\* Where a terminating transfer goes.
TransferTarget(inst) ==
  IF inst[1] = "tail_call" THEN inst[2] ELSE <<"two_way", inst[3], inst[4]>>

\* The targets of the terminating transfers of a block, in order.
TransferTargets(insts) ==
  LET ts == SelectSeq(insts, IsTerminator)
  IN [i \in 1..Len(ts) |-> TransferTarget(ts[i])]

\* The block holds one terminating transfer, and it is its last instruction.
EndsWithOneTransfer(insts) ==
  /\ Len(SelectSeq(insts, IsTerminator)) = 1
  /\ IsTerminator(insts[Len(insts)])

IsSemanticsCall(inst) ==
  inst[1] = "call" /\ inst[2][1] \in {"function", "initializer"}

\* A + S + D and A + S of the decoded instruction, in the machine word.
WordTargetPC ==
  (xedd.address + xedd.size + xedd.branch_displacement) % WordMod

WordNextPC == (xedd.address + xedd.size) % WordMod

\* The eleven control-flow predicates in the order of their priority.
Predicates ==
  << IsError(xedd), IsDirectJump(xedd), IsIndirectJump(xedd),
     IsDirectFunctionCall(xedd), IsIndirectFunctionCall(xedd),
     IsFunctionReturn(xedd), IsBranch(xedd), IsSystemCall(xedd),
     IsSystemReturn(xedd), IsInterruptCall(xedd), IsInterruptReturn(xedd) >>

\* The position of the first predicate that holds; 12 stands for none.
FirstMatch ==
  IF \E i \in 1..11 : Predicates[i]
  THEN CHOOSE i \in 1..11 : Predicates[i] /\ \A j \in 1..(i - 1) : ~Predicates[j]
  ELSE 12

\* The terminating transfers of each classification path.
PathTransfers ==
  << <<Helper("error")>>,
     <<GetLiftedBlockForPC(WordTargetPC)>>,
     <<Helper("jump")>>,
     <<GetLiftedBlockForPC(WordTargetPC)>>,
     <<Helper("function_call")>>,
     <<Helper("function_return")>>,
     << <<"two_way", BlockRef(B + 1), BlockRef(B + 2)>> >>,
     <<Helper("system_call")>>,
     <<Helper("system_return")>>,
     <<Helper("interrupt_call")>>,
     <<Helper("interrupt_return")>>,
     <<>> >>

(***************************************************************************)
(* C1.  Whenever LiftIntoBlock has returned, the terminating transfers of  *)
(* the block it lifted into are exactly those of the path of the first     *)
(* predicate that holds, in the order IsError, IsDirectJump,               *)
(* IsIndirectJump, IsDirectFunctionCall, IsIndirectFunctionCall,           *)
(* IsFunctionReturn, IsBranch, IsSystemCall, IsSystemReturn,               *)
(* IsInterruptCall, IsInterruptReturn, and none when no predicate holds.   *)
(***************************************************************************)
C1_FirstMatchDecidesTransfer ==
  Lifted =>
    /\ TransferTargets(LiftedInsts) = PathTransfers[FirstMatch]
    /\ Len(blocks) = B + (IF FirstMatch = 7 THEN 2 ELSE 0)

\* A system return has been lifted and ends in the system_return helper.
C1_Witness ==
  /\ Lifted
  /\ xedd.iclass = "SYSEXIT"
  /\ FirstMatch = 9
  /\ TransferTargets(LiftedInsts) = <<Helper("system_return")>>

(***************************************************************************)
(* C2.  For a direct jump that is not an error, LiftIntoBlock returns      *)
(* false and the block holds exactly one terminating transfer, its last    *)
(* instruction, to the block the resolver gives for A + S + D.             *)
(***************************************************************************)
C2_DirectJumpTerminates ==
  (nlifts > 0 /\ IsDirectJump(xedd) /\ ~IsError(xedd)) =>
    /\ ret = "false"
    /\ EndsWithOneTransfer(LiftedInsts)
    /\ TransferTargets(LiftedInsts) = <<GetLiftedBlockForPC(WordTargetPC)>>

\* The jump at 0x1000 of size 2 and displacement -5 went to 0x0FFD.
C2_Witness ==
  /\ nlifts > 0 /\ IsDirectJump(xedd) /\ ret = "false"
  /\ xedd.address = 4096 /\ xedd.size = 2 /\ xedd.branch_displacement = -5
  /\ LiftedInsts[Len(LiftedInsts)][2] = GetLiftedBlockForPC(4093)

(***************************************************************************)
(* C3.  LiftIntoBlock returns true exactly when none of the eleven         *)
(* predicates holds; then the block holds no terminating transfer and at   *)
(* most one call of a semantics function.  Otherwise it returns false and  *)
(* the block ends with exactly one terminating transfer.                   *)
(***************************************************************************)
C3_TrueIffFallThrough ==
  Lifted =>
    /\ (ret = "true") <=> (\A i \in 1..11 : ~Predicates[i])
    /\ ret = "true" =>
         /\ SelectSeq(LiftedInsts, IsTerminator) = <<>>
         /\ Len(SelectSeq(LiftedInsts, IsSemanticsCall)) <= 1
    /\ ret = "false" => EndsWithOneTransfer(LiftedInsts)

\* A MOV has been lifted: true, one semantics call, no transfer.
C3_Witness ==
  /\ ret = "true"
  /\ xedd.iclass = "MOV"
  /\ Len(SelectSeq(LiftedInsts, IsSemanticsCall)) = 1
  /\ SelectSeq(LiftedInsts, IsTerminator) = <<>>

(***************************************************************************)
(* C4.  Lifting a conditional branch adds exactly two blocks to the        *)
(* routine, branch_taken and fall_through; each holds one terminating      *)
(* transfer, to the successor of A + S + D and of A + S; and the lifted    *)
(* block ends with a two-way transfer that takes branch_taken when the     *)
(* value loaded from the program-counter read slot equals the constant     *)
(* A + S + D of the machine-mode width.                                    *)
(***************************************************************************)
C4_ProgramCounterReadSlot ==
  CASE xedd.effective_address_width = 64 -> "RIP_read"
    [] xedd.effective_address_width = 32 -> "EIP_read"
    [] xedd.effective_address_width = 16 -> "IP_read"

C4_BranchMakesTwoBlocks ==
  (Lifted /\ FirstMatch = 7) =>
    /\ Len(blocks) = B + 2
    /\ blocks[B + 1] =
         [name |-> "branch_taken",
          insts |-> << <<"tail_call", GetLiftedBlockForPC(WordTargetPC),
                         <<StateArgument>>>> >>]
    /\ blocks[B + 2] =
         [name |-> "fall_through",
          insts |-> << <<"tail_call", GetLiftedBlockForPC(WordNextPC),
                         <<StateArgument>>>> >>]
    /\ EndsWithOneTransfer(LiftedInsts)
    /\ LiftedInsts[Len(LiftedInsts)] =
         <<"condbr",
           <<"icmp_eq",
             <<"const", xedd.machine_mode_bits,
               WordTargetPC % Pow2(Bits(xedd.machine_mode_bits))>>,
             <<"load", <<"load", <<"var", C4_ProgramCounterReadSlot>>>>>>>>,
           BlockRef(B + 1), BlockRef(B + 2)>>

\* A JZ at 0x1000 has been lifted a second time: blocks 4, 5 and 6.
C4_Witness ==
  /\ Lifted /\ xedd.iclass = "JZ" /\ nlifts = 2
  /\ xedd.address = 4096 /\ xedd.size = 2 /\ xedd.branch_displacement = 3
  /\ B = 4 /\ Len(blocks) = 6
  /\ blocks[5].name = "branch_taken" /\ blocks[6].name = "fall_through"

(***************************************************************************)
(* C5.  The target a direct jump, a direct call or a branch is threaded    *)
(* to is A + S + D modulo the machine word, for D negative, zero or        *)
(* positive, and the fall-through successor of a branch and the program    *)
(* counter the lift stores are A + S.                                      *)
(***************************************************************************)
C5_TargetIsNextPlusDisplacement ==
  Lifted =>
    /\ (IsDirectJump(xedd) \/ IsDirectFunctionCall(xedd)) =>
         LiftedInsts[Len(LiftedInsts)][2] = GetLiftedBlockForPC(WordTargetPC)
    /\ IsBranch(xedd) =>
         /\ blocks[B + 1].insts[1][2] = GetLiftedBlockForPC(WordTargetPC)
         /\ blocks[B + 2].insts[1][2] = GetLiftedBlockForPC(WordNextPC)
    /\ (IsDirectFunctionCall(xedd) \/ IsBranch(xedd)) =>
         LiftedInsts[2][2] = <<"const", xedd.machine_mode_bits,
                               WordNextPC % Pow2(Bits(xedd.machine_mode_bits))>>
    /\ TargetPCDefined(xedd) =>
         /\ TargetPC(xedd) = WordTargetPC
         /\ NextPC(xedd) = WordNextPC

\* The direct call at 0x1000 of size 2 and displacement -5 went to 0x0FFD.
C5_Witness ==
  /\ Lifted /\ IsDirectFunctionCall(xedd)
  /\ xedd.address = 4096 /\ xedd.size = 2 /\ xedd.branch_displacement = -5
  /\ LiftedInsts[Len(LiftedInsts)][2] = GetLiftedBlockForPC(4093)
  /\ TargetPC(xedd) = 4093 /\ NextPC(xedd) = 4098

(***************************************************************************)
(* Vocabulary of the memory operand properties.                            *)
(***************************************************************************)
\* The instruction has one operand, a visible memory operand.
OneMemoryOperand ==
  /\ Len(xedd.operands) = 1
  /\ xedd.operands[1].name \in {"MEM0", "AGEN"}
  /\ xedd.operands[1].visibility # "SUPPRESSED"

\* The value the last call appended to args last.
LastArgument == args[Len(args)]

IsSegmentCall(inst) ==
  inst[1] = "call" /\ inst[2] = Helper("compute_address")

\* The tag of the one memory operand, as the address spaces are numbered.
SegmentTag ==
  IF xedd.operands[1].name = "AGEN" THEN 0
  ELSE CASE xedd.seg_reg = "GS" -> 256
         [] xedd.seg_reg = "FS" -> 257
         [] OTHER -> 0

\* The address the one memory operand has before its segment is applied.
PlainAddress ==
  ComputeAddress([insts |-> <<>>, args |-> <<>>, aborted |-> FALSE], xedd).v

(***************************************************************************)
(* C6.  The tag of a lifted memory operand is 256 for GS, 257 for FS and   *)
(* 0 otherwise, and 0 for every AGEN operand.  With a tag other than 0     *)
(* the block calls the segmented-address helper once, with the machine     *)
(* state, the computed address and the tag, and the value of that call is  *)
(* what is appended to args for every role of the operand; with tag 0      *)
(* there is no such call and the computed address is appended.             *)
(***************************************************************************)
C6_SegmentTagRoutesHelper ==
  (Lifted /\ OneMemoryOperand) =>
    LET calls == SelectSeq(LiftedInsts, IsSegmentCall)
        appended == SubSeq(args, Len(entry_args) + 2, Len(args))
        A == IF SegmentTag # 0
             THEN <<"call", Helper("compute_address"),
                    <<FindStatePointer, PlainAddress,
                      <<"const", 32, SegmentTag>>>>>>
             ELSE PlainAddress
    IN /\ calls = IF SegmentTag # 0 THEN <<A>> ELSE <<>>
       /\ Len(appended) >= 1
       /\ \A i \in 1..Len(appended) : appended[i] = A
       /\ ~IsSegmentCall(PlainAddress)

\* An FS operand went through the helper with tag 257.
C6_Witness ==
  /\ Lifted /\ OneMemoryOperand
  /\ xedd.seg_reg = "FS" /\ xedd.operands[1].name = "MEM0"
  /\ IsSegmentCall(LastArgument)
  /\ LastArgument[3][3] = <<"const", 32, 257>>
  /\ LastArgument \in { LiftedInsts[i] : i \in 1..Len(LiftedInsts) }

(***************************************************************************)
(* C7.  As claimed: a memory operand without base and index yields its     *)
(* displacement as the value appended to args, whatever its segment is.    *)
(***************************************************************************)
DisplacementConstant ==
  <<"const", xedd.machine_mode_bits,
    xedd.memory_displacement % Pow2(Bits(xedd.machine_mode_bits))>>

NoBaseNoIndex == xedd.base_reg = "INVALID" /\ xedd.index_reg = "INVALID"

C7_Original_DisplacementWhateverSegment ==
  (Lifted /\ OneMemoryOperand /\ NoBaseNoIndex) =>
    LastArgument = DisplacementConstant

(***************************************************************************)
(* C7, amended.  A memory operand without base and index yields its        *)
(* displacement as the value appended to args when its tag is 0 (no        *)
(* segment, a segment other than FS and GS, or an AGEN operand); with FS   *)
(* or GS on another operand the displacement is the address handed to the  *)
(* segmented-address helper, and the helper's result is appended.          *)
(***************************************************************************)
C7_DisplacementUnlessSegmented ==
  (Lifted /\ OneMemoryOperand /\ NoBaseNoIndex) =>
    IF SegmentTag = 0
    THEN LastArgument = DisplacementConstant
    ELSE /\ IsSegmentCall(LastArgument)
         /\ LastArgument[3][2] = DisplacementConstant

\* Displacement 0x2000 under DS in 64-bit mode gave the address 0x2000.
C7_Witness ==
  /\ Lifted /\ OneMemoryOperand /\ NoBaseNoIndex
  /\ xedd.memory_displacement = 8192 /\ xedd.seg_reg = "DS"
  /\ xedd.machine_mode_bits = 64
  /\ LastArgument = <<"const", 64, 8192>>

(***************************************************************************)
(* C8.  In base + index * scale + displacement the base value of a POP     *)
(* whose base is RSP, ESP or SP is the stack pointer's value plus          *)
(* address_width / 8; for any other class or base it is the register's     *)
(* value; the index value is the index register's value in every case.     *)
(***************************************************************************)
\* The value of a register in an address of width w.
C8_RegisterValue(reg, w) ==
  IF reg = "INVALID" THEN <<"const", w, 0>>
  ELSE LET v == <<"load", <<"load", <<"var", reg \o "_read">>>>>>
       IN IF RegisterWidth(reg) < w THEN <<"zext", v, w>> ELSE v

BaseIndexForm == ~NoBaseNoIndex /\ xedd.base_reg # "RIP"

\* The address of the one memory operand, inside the helper call if any.
C8_Address ==
  IF IsSegmentCall(LastArgument) THEN LastArgument[3][2] ELSE LastArgument

C8_PopAdjustsStackBase ==
  (Lifted /\ OneMemoryOperand /\ BaseIndexForm) =>
    LET w == xedd.machine_mode_bits
        base == C8_RegisterValue(xedd.base_reg, w)
        index == C8_RegisterValue(xedd.index_reg, w)
        A == C8_Address
    IN /\ A[1] = "add" /\ A[2][1] = "add"
       /\ A[2][2] = IF xedd.iclass = "POP"
                       /\ xedd.base_reg \in {"RSP", "ESP", "SP"}
                    THEN <<"add", base, <<"const", w, w \div 8>>>>
                    ELSE base
       /\ A[2][3] = IF xedd.index_reg = "INVALID"
                    THEN <<"const", w, 0>>
                    ELSE <<"mul", index, <<"const", w, xedd.scale>>>>

\* POP [RSP + RSI * 4 + disp] in 64-bit mode used RSP + 8.
C8_Witness ==
  /\ Lifted /\ OneMemoryOperand
  /\ xedd.iclass = "POP" /\ xedd.base_reg = "RSP" /\ xedd.index_reg = "RSI"
  /\ xedd.machine_mode_bits = 64 /\ xedd.scale = 4
  /\ C8_Address[2][2] =
       <<"add", <<"load", <<"load", <<"var", "RSP_read">>>>>>,
         <<"const", 64, 8>>>>

(***************************************************************************)
(* C9.  As claimed: the argument list passed to the semantics function is  *)
(* the machine-state argument followed by the contributions of the         *)
(* operands in decode order; a suppressed operand contributes nothing, a   *)
(* register its write handle and then its read value, a memory operand     *)
(* its address once per role.                                              *)
(***************************************************************************)
EmptyContext == [insts |-> <<>>, args |-> <<>>, aborted |-> FALSE]

C9_RegisterContribution(op) ==
  LET slot == <<"load", <<"var", op.reg \o "_read">>>>
      value == <<"load", slot>>
  IN (IF op.written
      THEN << <<"load", <<"var", op.reg \o "_write">>>> >> ELSE <<>>)
     \o (IF op.read
         THEN << IF IsVectorReg(op.reg) THEN <<"alloca", value>> ELSE value >>
         ELSE <<>>)

C9_MemoryContribution(op) ==
  LET A == SegmentedAddress(EmptyContext, PlainAddress,
                            AddressSpace(xedd.seg_reg, op.name)).v
  IN (IF op.written THEN <<A>> ELSE <<>>) \o (IF op.read THEN <<A>> ELSE <<>>)

C9_Contribution(op) ==
  IF op.visibility = "SUPPRESSED" THEN <<>>
  ELSE IF op.name \in {"REG0", "REG1", "REG2", "REG3"}
  THEN C9_RegisterContribution(op)
  ELSE IF op.name \in {"MEM0", "AGEN"} THEN C9_MemoryContribution(op)
  ELSE IF op.name \in {"IMM0", "IMM0SIGNED", "IMM1", "IMM1_BYTES"}
  THEN LiftImmediate(EmptyContext, xedd, op.name).args
  ELSE IF op.name = "RELBR"
  THEN << <<"const", xedd.machine_mode_bits,
            WordTargetPC % Pow2(Bits(xedd.machine_mode_bits))>> >>
  ELSE <<>>

RECURSIVE C9_Contributions(_, _)
C9_Contributions(ops, i) ==
  IF i > Len(ops) THEN <<>>
  ELSE C9_Contribution(ops[i]) \o C9_Contributions(ops, i + 1)

C9_StateThenOperandsInOrder ==
  Lifted =>
    \A i \in 1..Len(LiftedInsts) :
      IsSemanticsCall(LiftedInsts[i]) =>
        LiftedInsts[i][3] =
          <<StateArgument>> \o C9_Contributions(xedd.operands, 1)

(***************************************************************************)
(* C10.  As claimed: on each of the eleven control-transfer paths the      *)
(* block starts with the store of A + S into the program-counter write     *)
(* slot, the generic lift follows (args grows by the machine state and     *)
(* the operands, the semantics call is emitted) and the terminating        *)
(* transfer comes last.                                                    *)
(***************************************************************************)
C10_ProgramCounterWriteSlot ==
  CASE xedd.effective_address_width = 64 -> "RIP_write"
    [] xedd.effective_address_width = 32 -> "EIP_write"
    [] xedd.effective_address_width = 16 -> "IP_write"

\* The position of the first instruction of the transfer step.
C10_TransferStep ==
  IF FirstMatch = 7
  THEN CHOOSE i \in 1..Len(LiftedInsts) :
         /\ LiftedInsts[i] =
              <<"load", <<"var", C4_ProgramCounterReadSlot>>>>
         /\ i + 3 = Len(LiftedInsts)
  ELSE Len(LiftedInsts)

C10_StoreThenGenericThenTransfer ==
  /\ Len(LiftedInsts) >= 3
  /\ LiftedInsts[1] = <<"load", <<"var", C10_ProgramCounterWriteSlot>>>>
  /\ LiftedInsts[2] =
       <<"store",
         <<"const", xedd.machine_mode_bits,
           WordNextPC % Pow2(Bits(xedd.machine_mode_bits))>>,
         LiftedInsts[1]>>
  /\ Len(args) > Len(entry_args)
  /\ SubSeq(args, 1, Len(entry_args)) = entry_args
  /\ args[Len(entry_args) + 1] = StateArgument
  /\ module.semantics # "none" =>
       \E p \in 3..(C10_TransferStep - 1) :
         /\ IsSemanticsCall(LiftedInsts[p])
         /\ LiftedInsts[p][3] = args
  /\ \A p \in 1..Len(LiftedInsts) :
       IsSemanticsCall(LiftedInsts[p]) => (2 < p /\ p < C10_TransferStep)
  /\ EndsWithOneTransfer(LiftedInsts)

C10_Original_EveryCategoryStoresAndLifts ==
  (Lifted /\ FirstMatch <= 11) => C10_StoreThenGenericThenTransfer

(***************************************************************************)
(* C10, amended.  On the paths of an indirect jump, a direct or indirect   *)
(* call, a return, a branch, a system call or return and an interrupt      *)
(* call or return, the block starts with the store of A + S into the       *)
(* program-counter write slot, the generic lift follows and the            *)
(* terminating transfer comes last.  The error and the direct jump path    *)
(* emit the terminating transfer only: no store, no generic lift.          *)
(***************************************************************************)
C10_StoreThenGenericUnlessErrorOrDirectJump ==
  Lifted =>
    /\ FirstMatch \in 3..11 => C10_StoreThenGenericThenTransfer
    /\ FirstMatch \in {1, 2} =>
         /\ Len(LiftedInsts) = 1
         /\ IsTerminator(LiftedInsts[1])
         /\ args = entry_args

\* A system call has been lifted: load, store, semantics call, transfer.
C10_Witness ==
  /\ Lifted /\ xedd.iclass = "SYSCALL" /\ xedd.operands = <<>>
  /\ Len(LiftedInsts) = 4
  /\ LiftedInsts[2][1] = "store"
  /\ IsSemanticsCall(LiftedInsts[3])
  /\ LiftedInsts[4] = <<"tail_call", Helper("system_call"), <<StateArgument>>>>


(***************************************************************************)
(* C11.  As claimed: an operand IMM1 or IMM1_BYTES appends the second      *)
(* immediate of the instruction, zero-extended, as a constant of the       *)
(* effective operand width, whatever the signedness flag of the first      *)
(* immediate is.  Stated on instructions all of whose operands are         *)
(* visible immediates, where operand i contributes argument i after the    *)
(* machine state.                                                          *)
(***************************************************************************)
ImmediateNames == {"IMM0", "IMM0SIGNED", "IMM1", "IMM1_BYTES"}

OnlyImmediates ==
  /\ xedd.operands # <<>>
  /\ \A i \in 1..Len(xedd.operands) :
       /\ xedd.operands[i].name \in ImmediateNames
       /\ xedd.operands[i].visibility # "SUPPRESSED"

\* The argument that operand i of an immediates-only instruction appended
\* in the last call.
ImmediateArgument(i) == args[Len(entry_args) + 1 + i]

SecondImmediateConstant ==
  <<"const", xedd.operand_width,
    xedd.second_immediate % Pow2(Bits(xedd.operand_width))>>

C11_SecondImmediateAlwaysUnsigned ==
  (Lifted /\ OnlyImmediates) =>
    \A i \in 1..Len(xedd.operands) :
      xedd.operands[i].name \in {"IMM1", "IMM1_BYTES"} =>
        ImmediateArgument(i) = SecondImmediateConstant


(***************************************************************************)
(* C12.  When neither a semantics function nor a constant function         *)
(* pointer is registered under the name of the instruction, the call of    *)
(* LiftIntoBlock completes exactly when it completes with the function     *)
(* registered, emits no semantics call, returns the same boolean, ends in  *)
(* the same terminating transfers and adds the same blocks; the block it   *)
(* lifted into is the one of the registered case less the semantics call.  *)
(***************************************************************************)
\* The same call of LiftIntoBlock in a module that has the function.
WithSemantics ==
  LiftInstr([insts |-> <<>>, args |-> entry_args, aborted |-> FALSE],
            xedd, Module(module.os, "function"), append_instrs, B + 1)

NotSemanticsCall(inst) == ~IsSemanticsCall(inst)

C12_MissingSemanticsKeepsControlFlow ==
  (nlifts > 0 /\ module.semantics = "none") =>
    /\ Lifted <=> ~WithSemantics.ctx.aborted
    /\ Lifted =>
         /\ SelectSeq(LiftedInsts, IsSemanticsCall) = <<>>
         /\ (ret = "true") <=> WithSemantics.ret
         /\ TransferTargets(LiftedInsts) =
              TransferTargets(WithSemantics.ctx.insts)
         /\ LiftedInsts = SelectSeq(WithSemantics.ctx.insts, NotSemanticsCall)
         /\ SubSeq(blocks, B + 1, Len(blocks)) = WithSemantics.created
         /\ args = WithSemantics.ctx.args

\* A conditional jump has been lifted without semantics: two new blocks, a
\* two-way transfer and no semantics call, where the registered case has one.
C12_Witness ==
  /\ Lifted /\ module.semantics = "none" /\ xedd.iclass = "JZ"
  /\ ret = "false"
  /\ Len(blocks) = B + 2
  /\ LiftedInsts[Len(LiftedInsts)][1] = "condbr"
  /\ SelectSeq(LiftedInsts, IsSemanticsCall) = <<>>
  /\ SelectSeq(WithSemantics.ctx.insts, IsSemanticsCall) # <<>>


(***************************************************************************)
(* C13.  As claimed: when the effective address width is none of 64, 32    *)
(* and 16, a call of LiftIntoBlock that reaches LiftPC or                  *)
(* LiftConditionalBranch dies there: it does not return, and the block     *)
(* holds no load from and no store to a slot looked up under the           *)
(* unresolved names "_write" and "_read".                                  *)
(***************************************************************************)
UnrecognizedAddressWidth == xedd.effective_address_width \notin {64, 32, 16}

\* The slots that a lookup with an empty register name asks for.
IsUnresolvedSlot(v) == v[1] = "var" /\ v[2] \in {"_write", "_read"}

\* v is the value loaded from an unresolved slot.
IsUnresolvedSlotValue(v) == v[1] = "load" /\ IsUnresolvedSlot(v[2])

UsesUnresolvedSlot(inst) ==
  \/ inst[1] = "load" /\ IsUnresolvedSlot(inst[2])
  \/ inst[1] = "load" /\ IsUnresolvedSlotValue(inst[2])
  \/ inst[1] = "store" /\ IsUnresolvedSlotValue(inst[3])

C13_UnresolvedNameIsFatal ==
  (nlifts > 0 /\ UnrecognizedAddressWidth /\ FirstMatch \in 3..11) =>
    /\ ret = "aborted"
    /\ SelectSeq(LiftedInsts, UsesUnresolvedSlot) = <<>>


(***************************************************************************)
(* C14.  As claimed: every call of LiftIntoBlock starts with an empty      *)
(* argument list and an empty list of instructions to append, so the       *)
(* arguments of the semantics call of any call on an instruction object    *)
(* are those of the first call on it.                                      *)
(***************************************************************************)
\* The first call of LiftIntoBlock on the object: nothing accumulated yet.
FirstCall == LiftInstr(EmptyContext, xedd, module, <<>>, B + 1)

C14_ContextNeverCarriesOver ==
  nlifts > 0 =>
    /\ entry_args = <<>>
    /\ append_instrs = <<>>
    /\ Lifted =>
         \A i \in 1..Len(LiftedInsts) :
           IsSemanticsCall(LiftedInsts[i]) =>
             LiftedInsts[i][3] = FirstCall.ctx.args


(***************************************************************************)
(* C15.  As claimed: NthIndex(mask, val, n, offset) counts the elements    *)
(* equal to val from the incoming offset on.  If n >= 0 and more than n    *)
(* such elements lie at or after the offset, it returns true and leaves    *)
(* the index of the n-th of them (0-based) in offset; otherwise it         *)
(* returns false and leaves offset as it was.                              *)
(***************************************************************************)
\* The indexes at or after the incoming offset whose element is val.
HitsFromOffset ==
  { i \in call.offset..(Len(mask) - 1) : mask[i + 1] = call.val }

\* The n-th of them, counted from 0.
NthHitFromOffset ==
  CHOOSE i \in HitsFromOffset :
    Cardinality({ j \in HitsFromOffset : j < i }) = call.n

C15_NthIndexCountsFromOffset ==
  call.fn = "NthIndex" =>
    IF call.n >= 0 /\ Cardinality(HitsFromOffset) > call.n
    THEN result = TRUE /\ offset = NthHitFromOffset
    ELSE result = FALSE /\ offset = call.offset


(***************************************************************************)
(* C16.  As claimed: once a TypeMask is built over regs, by either         *)
(* constructor, and after any calls of reset(), both masks are as long as  *)
(* regs, rets is the subsequence of regs at the indexes where              *)
(* ret_type_mask is true and params the one where param_type_mask is      *)
(* true; Empty() is true exactly when both masks are all false; after      *)
(* reset() both lists are empty and both masks all false.                  *)
(***************************************************************************)
\* The elements of rs at the indexes where m is true, in the order of rs.
MaskedSubsequence(rs, m) ==
  LET idx == { i \in 1..Len(rs) : m[i] }
  IN [k \in 1..Cardinality(idx) |->
        rs[CHOOSE i \in idx : Cardinality({ j \in idx : j < i }) = k - 1]]

AllFalse(m) == \A i \in 1..Len(m) : ~m[i]

C16_ListsFollowMasks ==
  call.fn # "none" =>
    /\ Len(type_mask.ret_type_mask) = Len(regs)
    /\ Len(type_mask.param_type_mask) = Len(regs)
    /\ type_mask.rets = MaskedSubsequence(regs, type_mask.ret_type_mask)
    /\ type_mask.params = MaskedSubsequence(regs, type_mask.param_type_mask)
    /\ call.fn = "Empty" =>
         (result <=> (AllFalse(type_mask.ret_type_mask)
                      /\ AllFalse(type_mask.param_type_mask)))
    /\ call.fn = "reset" =>
         /\ type_mask.rets = <<>> /\ type_mask.params = <<>>
         /\ AllFalse(type_mask.ret_type_mask)
         /\ AllFalse(type_mask.param_type_mask)

====
